---------------------------- MODULE Spec2Model ----------------------------
(***************************************************************************)
(* A model of binomial.py: the validation helpers, factorial,              *)
(* combinations and the Binomial class.                                    *)
(*                                                                         *)
(* A Python value is a record [t, v]: t is its type ("int", "float",       *)
(* "str", "NoneType", "dict", "Binomial") and v its value.  The value of   *)
(* a float is an exact rational [num, den] in lowest terms: with           *)
(* probabilities that are multiples of 1/4 and the small n of the model    *)
(* every float met is a dyadic rational that an IEEE double holds          *)
(* exactly, so the float arithmetic of the source and the rational         *)
(* arithmetic here agree on these inputs.                                  *)
(*                                                                         *)
(* A call's outcome is a record [kind, val]: kind is "return", with the    *)
(* value returned, or the name of the exception that reaches the caller.   *)
(***************************************************************************)
EXTENDS Integers, Sequences, FiniteSets

VARIABLES
    binomial,   \* the Binomial object the caller holds (NoObject before one is built)
    call,       \* the last call made: [op, args]
    result      \* its outcome: [kind, val]

vars == <<binomial, call, result>>

\* ------------------------------------------------------------------ bounds

\* Largest number of trials a distribution is constructed with.
MaxN == 3
\* Largest integer argument handed to the module-level functions.
MaxArg == 5
\* Probabilities are the multiples of 1/PDen.
PDen == 4

\* ---------------------------------------------------------------- rationals

Abs(i) == IF i < 0 THEN -i ELSE i

RECURSIVE Gcd(_, _)
Gcd(a, b) == IF b = 0 THEN a ELSE Gcd(b, a % b)

\* The rational n/d (d > 0) in lowest terms.
Rat(n, d) ==
    LET g == Gcd(Abs(n), d)
    IN  [num |-> n \div g, den |-> d \div g]

RInt(i) == Rat(i, 1)
RAdd(x, y) == Rat(x.num * y.den + y.num * x.den, x.den * y.den)
RSub(x, y) == Rat(x.num * y.den - y.num * x.den, x.den * y.den)
RMul(x, y) == Rat(x.num * y.num, x.den * y.den)
RLe(x, y) == x.num * y.den <= y.num * x.den

RECURSIVE RPow(_, _)
RPow(x, k) == IF k = 0 THEN RInt(1) ELSE RMul(x, RPow(x, k - 1))

\* ------------------------------------------------------------ Python values

PyInt(i) == [t |-> "int", v |-> i]
PyFloat(r) == [t |-> "float", v |-> r]
PyStr == [t |-> "str", v |-> 0]
PyNone == [t |-> "NoneType", v |-> 0]
PyDict(items) == [t |-> "dict", v |-> items]

\* The number an int or a float stands for.
Num(x) == IF x.t = "int" THEN RInt(x.v) ELSE x.v

\* x + y, x - y, x * y: an int when both operands are ints, else a float.
PyAdd(x, y) ==
    IF x.t = "int" /\ y.t = "int" THEN PyInt(x.v + y.v)
    ELSE PyFloat(RAdd(Num(x), Num(y)))

PySub(x, y) ==
    IF x.t = "int" /\ y.t = "int" THEN PyInt(x.v - y.v)
    ELSE PyFloat(RSub(Num(x), Num(y)))

PyMul(x, y) ==
    IF x.t = "int" /\ y.t = "int" THEN PyInt(x.v * y.v)
    ELSE PyFloat(RMul(Num(x), Num(y)))

\* x ** k for an int k >= 0 (0 ** 0 and 0.0 ** 0 are 1).
PyPow(x, k) ==
    IF x.t = "int" THEN PyInt(RPow(RInt(x.v), k).num)
    ELSE PyFloat(RPow(x.v, k))

\* x <= y for ints and floats.
PyLe(x, y) == RLe(Num(x), Num(y))

Return(v) == [kind |-> "return", val |-> v]
Raise(e) == [kind |-> e, val |-> PyNone]

\* ---------------------------------------------------------------- validation

\* "None" when the check passes, else the name of the exception raised.
validate_non_negative_integer(n) ==
    IF n.t # "int" THEN "TypeError"
    ELSE IF n.v < 0 THEN "ValueError"
    ELSE "None"

\* x >= y refused: equality taken for a violation.
validate_less_equal_strict(x, y) ==
    LET cx == validate_non_negative_integer(x)
    IN  IF cx # "None" THEN cx
        ELSE LET cy == validate_non_negative_integer(y)
             IN  IF cy # "None" THEN cy
                 ELSE IF x.v >= y.v THEN "ValueError"
                 ELSE "None"

\* y validated before x.
validate_less_equal_yx(x, y) ==
    LET cy == validate_non_negative_integer(y)
    IN  IF cy # "None" THEN cy
        ELSE LET cx == validate_non_negative_integer(x)
             IN  IF cx # "None" THEN cx
                 ELSE IF x.v > y.v THEN "ValueError"
                 ELSE "None"

validate_less_equal(x, y) ==
    LET cx == validate_non_negative_integer(x)
    IN  IF cx # "None" THEN cx
        ELSE LET cy == validate_non_negative_integer(y)
             IN  IF cy # "None" THEN cy
                 ELSE IF x.v > y.v THEN "ValueError"
                 ELSE "None"

\* The outcome of a call of a validation helper.
Validated(c) == IF c = "None" THEN Return(PyNone) ELSE Raise(c)

\* ------------------------------------------------- factorial, combinations

\* The base case returning n: 0! = 0.
RECURSIVE factorial_base_n(_)
factorial_base_n(n) ==
    LET c == validate_non_negative_integer(n)
    IN  IF c # "None" THEN Raise(c)
        ELSE IF n.v < 2 THEN Return(n)
        ELSE LET r == factorial_base_n(PySub(n, PyInt(1)))
             IN  IF r.kind # "return" THEN r ELSE Return(PyMul(n, r.val))

RECURSIVE factorial(_)
factorial(n) ==
    LET c == validate_non_negative_integer(n)
    IN  IF c # "None" THEN Raise(c)
        ELSE IF n.v < 2 THEN Return(PyInt(1))
        ELSE LET r == factorial(PySub(n, PyInt(1)))
             IN  IF r.kind # "return" THEN r ELSE Return(PyMul(n, r.val))

\* factorial(n) // factorial(r) * factorial(n - r): the parentheses lost.
combinations_no_parens(n, r) ==
    LET cn == validate_non_negative_integer(n)
        cr == validate_non_negative_integer(r)
        cl == validate_less_equal(r, n)
    IN  IF cn # "None" THEN Raise(cn)
        ELSE IF cr # "None" THEN Raise(cr)
        ELSE IF cl # "None" THEN Raise(cl)
        ELSE Return(PyInt((factorial(n).val.v \div factorial(r).val.v)
                              * factorial(PySub(n, r)).val.v))

combinations(n, r) ==
    LET cn == validate_non_negative_integer(n)
        cr == validate_non_negative_integer(r)
        cl == validate_less_equal(r, n)
    IN  IF cn # "None" THEN Raise(cn)
        ELSE IF cr # "None" THEN Raise(cr)
        ELSE IF cl # "None" THEN Raise(cl)
        \* int // int: floor division of non-negative integers
        ELSE Return(PyInt(factorial(n).val.v
                              \div (factorial(r).val.v
                                      * factorial(PySub(n, r)).val.v)))

\* ------------------------------------------------------- module-level calls

\* The arguments a caller hands to the module-level functions: integers
\* (negative ones included), the floats 1.5, 4.0 and -1.5, and a string.
FnArgs ==
    {PyInt(i) : i \in -2..MaxArg}
        \cup {PyFloat(Rat(3, 2)), PyFloat(Rat(4, 1)), PyFloat(Rat(-3, 2)), PyStr}

NoObject == [constructed |-> FALSE]

Init ==
    /\ binomial = NoObject
    /\ call = [op |-> "none", args |-> <<>>]
    /\ result = Return(PyNone)

CallValidateNonNegativeInteger ==
    \E x \in FnArgs :
        /\ call' = [op |-> "validate_non_negative_integer", args |-> <<x>>]
        /\ result' = Validated(validate_non_negative_integer(x))
        /\ UNCHANGED binomial

CallValidateLessEqual ==
    \E x \in FnArgs, y \in FnArgs :
        /\ call' = [op |-> "validate_less_equal", args |-> <<x, y>>]
        /\ result' = Validated(validate_less_equal(x, y))
        /\ UNCHANGED binomial

CallFactorial ==
    \E n \in FnArgs :
        /\ call' = [op |-> "factorial", args |-> <<n>>]
        /\ result' = factorial(n)
        /\ UNCHANGED binomial

CallCombinations ==
    \E n \in FnArgs, r \in FnArgs :
        /\ call' = [op |-> "combinations", args |-> <<n, r>>]
        /\ result' = combinations(n, r)
        /\ UNCHANGED binomial

\* The module-level functions, called with any arguments.
FnNext ==
    \/ CallValidateNonNegativeInteger
    \/ CallValidateLessEqual
    \/ CallFactorial
    \/ CallCombinations

SpecFn == Init /\ [][FnNext]_vars

\* ------------------------------------------------------------ class Binomial

\* self is the record of the instance attributes _num_trails, _prob_success,
\* _prob_failure and _prob_distribution, each a Python value.

num_trails(self) ==
    LET c == validate_non_negative_integer(self._num_trails)
    IN  IF c # "None" THEN Raise(c) ELSE Return(self._num_trails)

\* The range check done once at construction and not again.
prob_success_unchecked(self) == Return(self._prob_success)

prob_success(self) ==
    IF ~(PyLe(PyInt(0), self._prob_success) /\ PyLe(self._prob_success, PyInt(1)))
    THEN Raise("ValueError")
    ELSE Return(self._prob_success)

prob_failure(self) == Return(self._prob_failure)

expected_value(self) ==
    LET n == num_trails(self)
        p == prob_success(self)
    IN  IF n.kind # "return" THEN n
        ELSE IF p.kind # "return" THEN p
        ELSE Return(PyMul(n.val, p.val))

variance(self) ==
    LET n == num_trails(self)
        p == prob_success(self)
        q == prob_failure(self)
    IN  IF n.kind # "return" THEN n
        ELSE IF p.kind # "return" THEN p
        ELSE Return(PyMul(PyMul(n.val, p.val), q.val))

\* The float x / sqrt(r), for r > 0, kept symbolic.
Quotient(x, r) == PyFloat([numerator |-> Num(x), sqrt_of |-> Num(r)])

\* numerator / denominator handing back a non-finite float for a zero
\* denominator.
skewness_non_finite(self) ==
    LET q == prob_failure(self)
        p == prob_success(self)
        n == num_trails(self)
        numerator == PySub(q.val, p.val)
        radicand == PyMul(PyMul(n.val, p.val), q.val)
    IN  IF p.kind # "return" THEN p
        ELSE IF n.kind # "return" THEN n
        ELSE IF Num(radicand).num < 0 THEN Raise("ValueError")
        ELSE Return(Quotient(numerator, radicand))

skewness(self) ==
    LET q == prob_failure(self)
        p == prob_success(self)
        n == num_trails(self)
        numerator == PySub(q.val, p.val)
        radicand == PyMul(PyMul(n.val, p.val), q.val)
    IN  IF p.kind # "return" THEN p
        ELSE IF n.kind # "return" THEN n
        \* math.sqrt of a negative number: "math domain error"
        ELSE IF Num(radicand).num < 0 THEN Raise("ValueError")
        \* sqrt(0) is 0.0, and Python's division by 0.0 raises
        ELSE IF Num(radicand).num = 0 THEN Raise("ZeroDivisionError")
        ELSE Return(Quotient(numerator, radicand))

probability_k(self, k) ==
    LET c == validate_non_negative_integer(k)
        n == num_trails(self)
        cl == validate_less_equal(k, n.val)
        comb == combinations(n.val, k)
        p == prob_success(self)
        q == prob_failure(self)
    IN  IF c # "None" THEN Raise(c)
        ELSE IF n.kind # "return" THEN n
        ELSE IF cl # "None" THEN Raise(cl)
        ELSE IF comb.kind # "return" THEN comb
        ELSE IF p.kind # "return" THEN p
        ELSE Return(PyMul(PyMul(comb.val, PyPow(p.val, k.v)),
                          PyPow(q.val, n.val.v - k.v)))

\* for k in range(k, hi): distribution[k] = self.probability_k(k)
\* The dict is the sequence of its <<key, value>> pairs in insertion order.
RECURSIVE distribution_loop(_, _, _, _)
distribution_loop(self, k, hi, items) ==
    IF k >= hi THEN Return(PyDict(items))
    ELSE LET pk == probability_k(self, PyInt(k))
         IN  IF pk.kind # "return" THEN pk
             ELSE distribution_loop(self, k + 1, hi, Append(items, <<k, pk.val>>))

\* range(0, self.num_trails): the last outcome left out.
distribution_exclusive(self) ==
    LET n == num_trails(self)
    IN  IF n.kind # "return" THEN n
        ELSE distribution_loop(self, 0, n.val.v, <<>>)

distribution(self) ==
    LET n == num_trails(self)
    IN  IF n.kind # "return" THEN n
        ELSE distribution_loop(self, 0, n.val.v + 1, <<>>)

\* for k in range(k, hi): cumulative += self.probability_k(k)
RECURSIVE cumulative_loop(_, _, _, _)
cumulative_loop(self, k, hi, cumulative) ==
    IF k >= hi THEN Return(cumulative)
    ELSE LET pk == probability_k(self, PyInt(k))
         IN  IF pk.kind # "return" THEN pk
             ELSE cumulative_loop(self, k + 1, hi, PyAdd(cumulative, pk.val))

\* range(0, k): the upper bound left out.
cumulative_exclusive(self, k) ==
    LET c == validate_non_negative_integer(k)
        n == num_trails(self)
        cl == validate_less_equal(k, n.val)
    IN  IF c # "None" THEN Raise(c)
        ELSE IF n.kind # "return" THEN n
        ELSE IF cl # "None" THEN Raise(cl)
        ELSE cumulative_loop(self, 0, k.v, PyInt(0))

cumulative(self, k) ==
    LET c == validate_non_negative_integer(k)
        n == num_trails(self)
        cl == validate_less_equal(k, n.val)
    IN  IF c # "None" THEN Raise(c)
        ELSE IF n.kind # "return" THEN n
        ELSE IF cl # "None" THEN Raise(cl)
        \* range(0, k + 1) is built from the argument before the loop rebinds k
        ELSE cumulative_loop(self, 0, k.v + 1, PyInt(0))

\* range(k1, k2): the upper bound left out.
cumulative_range_exclusive(self, k1, k2) ==
    LET c1 == validate_non_negative_integer(k1)
        c2 == validate_non_negative_integer(k2)
        n == num_trails(self)
        cl1 == validate_less_equal(k1, n.val)
        cl2 == validate_less_equal(k2, n.val)
        cl12 == validate_less_equal(k1, k2)
    IN  IF c1 # "None" THEN Raise(c1)
        ELSE IF c2 # "None" THEN Raise(c2)
        ELSE IF n.kind # "return" THEN n
        ELSE IF cl1 # "None" THEN Raise(cl1)
        ELSE IF cl2 # "None" THEN Raise(cl2)
        ELSE IF cl12 # "None" THEN Raise(cl12)
        ELSE cumulative_loop(self, k1.v, k2.v, PyInt(0))

cumulative_range(self, k1, k2) ==
    LET c1 == validate_non_negative_integer(k1)
        c2 == validate_non_negative_integer(k2)
        n == num_trails(self)
        cl1 == validate_less_equal(k1, n.val)
        cl2 == validate_less_equal(k2, n.val)
        cl12 == validate_less_equal(k1, k2)
    IN  IF c1 # "None" THEN Raise(c1)
        ELSE IF c2 # "None" THEN Raise(c2)
        ELSE IF n.kind # "return" THEN n
        ELSE IF cl1 # "None" THEN Raise(cl1)
        ELSE IF cl2 # "None" THEN Raise(cl2)
        ELSE IF cl12 # "None" THEN Raise(cl12)
        ELSE cumulative_loop(self, k1.v, k2.v + 1, PyInt(0))

\* The attributes __init__ assigns before it builds the distribution.
NewBinomial(num_trails_arg, prob_success_arg) ==
    [constructed |-> TRUE,
     _num_trails |-> num_trails_arg,
     _prob_success |-> prob_success_arg,
     _prob_failure |-> PySub(PyInt(1), prob_success_arg),
     _prob_distribution |-> PyNone]

\* ---------------------------------------------------- calls on the object

\* What a caller passes as the number of trials: integers (-1 included)
\* and the float 2.0.
NArgs == {PyInt(i) : i \in -1..MaxN} \cup {PyFloat(Rat(2, 1))}

\* What a caller passes as the success probability: the multiples of
\* 1/PDen from -1/PDen to 1 + 1/PDen, as floats.
PArgs == {PyFloat(Rat(a, PDen)) : a \in -1..(PDen + 1)}

\* What a caller passes as an outcome count k: integers from -1 to one
\* more than the largest n, and the float 1.5.
KArgs == {PyInt(i) : i \in -1..(MaxN + 1)} \cup {PyFloat(Rat(3, 2))}

\* binomial = Binomial(n, p): the one object whose life the model follows.
\* When __init__ raises, no object is bound.
Construct ==
    /\ ~binomial.constructed
    /\ \E n \in NArgs, p \in PArgs :
        LET new == NewBinomial(n, p)
            d == distribution(new)
        IN  /\ call' = [op |-> "Binomial", args |-> <<n, p>>]
            /\ IF d.kind = "return"
               THEN /\ binomial' = [new EXCEPT !._prob_distribution = d.val]
                    /\ result' = Return([t |-> "Binomial", v |-> 0])
               ELSE /\ binomial' = binomial
                    /\ result' = d

GetExpectedValue ==
    /\ binomial.constructed
    /\ call' = [op |-> "expected_value", args |-> <<>>]
    /\ result' = expected_value(binomial)
    /\ UNCHANGED binomial

GetVariance ==
    /\ binomial.constructed
    /\ call' = [op |-> "variance", args |-> <<>>]
    /\ result' = variance(binomial)
    /\ UNCHANGED binomial

GetSkewness ==
    /\ binomial.constructed
    /\ call' = [op |-> "skewness", args |-> <<>>]
    /\ result' = skewness(binomial)
    /\ UNCHANGED binomial

GetDistribution ==
    /\ binomial.constructed
    /\ call' = [op |-> "distribution", args |-> <<>>]
    /\ result' = distribution(binomial)
    /\ UNCHANGED binomial

CallProbabilityK ==
    /\ binomial.constructed
    /\ \E k \in KArgs :
        /\ call' = [op |-> "probability_k", args |-> <<k>>]
        /\ result' = probability_k(binomial, k)
    /\ UNCHANGED binomial

CallCumulative ==
    /\ binomial.constructed
    /\ \E k \in KArgs :
        /\ call' = [op |-> "cumulative", args |-> <<k>>]
        /\ result' = cumulative(binomial, k)
    /\ UNCHANGED binomial

CallCumulativeRange ==
    /\ binomial.constructed
    /\ \E k1 \in KArgs, k2 \in KArgs :
        /\ call' = [op |-> "cumulative_range", args |-> <<k1, k2>>]
        /\ result' = cumulative_range(binomial, k1, k2)
    /\ UNCHANGED binomial

\* binomial._num_trails = n, by a caller: nothing in the class prevents it.
SetNumTrails ==
    /\ binomial.constructed
    /\ \E n \in NArgs :
        /\ binomial' = [binomial EXCEPT !._num_trails = n]
        /\ call' = [op |-> "set _num_trails", args |-> <<n>>]
        /\ result' = Return(PyNone)

\* binomial._prob_success = p, by a caller.
SetProbSuccess ==
    /\ binomial.constructed
    /\ \E p \in PArgs :
        /\ binomial' = [binomial EXCEPT !._prob_success = p]
        /\ call' = [op |-> "set _prob_success", args |-> <<p>>]
        /\ result' = Return(PyNone)

\* The object as the class offers it: construction and queries.
Next ==
    \/ Construct
    \/ GetExpectedValue
    \/ GetVariance
    \/ GetSkewness
    \/ GetDistribution
    \/ CallProbabilityK
    \/ CallCumulative
    \/ CallCumulativeRange

Spec == Init /\ [][Next]_vars

\* The same with a caller that reassigns the stored fields.
NextReassign ==
    \/ Next
    \/ SetNumTrails
    \/ SetProbSuccess

SpecReassign == Init /\ [][NextReassign]_vars

\* ------------------------------------------------------- reference values

\* n! as the product 1 * 2 * ... * n.
Fact[n \in Nat] == IF n = 0 THEN 1 ELSE n * Fact[n - 1]

\* The binomial coefficient by Pascal's rule.
RECURSIVE Choose(_, _)
Choose(n, r) ==
    IF r = 0 \/ r = n THEN 1
    ELSE Choose(n - 1, r - 1) + Choose(n - 1, r)

\* C(n, k) * p^k * q^(n - k), for rationals p and q.
Pmf(n, k, p, q) == RMul(RMul(RInt(Choose(n, k)), RPow(p, k)), RPow(q, n - k))

IsInt(x) == x.t = "int"
Errors == {"TypeError", "ValueError"}

\* The stored number of trials is a non-negative integer.
ValidN(b) == IsInt(b._num_trails) /\ b._num_trails.v >= 0
\* The stored success probability lies in [0, 1].
ValidP(b) ==
    /\ RLe(RInt(0), Num(b._prob_success))
    /\ RLe(Num(b._prob_success), RInt(1))

Queries ==
    {"expected_value", "variance", "skewness", "distribution",
     "probability_k", "cumulative", "cumulative_range"}

\* probability_k(lo) + ... + probability_k(hi) as a rational, the terms
\* taken from the top down.
RECURSIVE SumProbabilityK(_, _, _)
SumProbabilityK(b, lo, hi) ==
    IF lo > hi THEN RInt(0)
    ELSE RAdd(SumProbabilityK(b, lo, hi - 1),
              Num(probability_k(b, PyInt(hi)).val))

\* The sum of the values of a dict.
RECURSIVE SumValues(_)
SumValues(items) ==
    IF items = <<>> THEN RInt(0)
    ELSE RAdd(Num(items[1][2]), SumValues(Tail(items)))

\* ------------------------------------------------------------------ claims

\* C1: factorial(n) is n! for every integer n >= 0, with
\* factorial(0) = factorial(1) = 1 and factorial(n) = n * factorial(n - 1)
\* for n >= 2; a negative integer raises ValueError and a non-integer
\* raises TypeError.
C1_FactorialExact ==
    call.op = "factorial" =>
        LET n == call.args[1]
        IN  /\ ~IsInt(n) => result.kind = "TypeError"
            /\ (IsInt(n) /\ n.v < 0) => result.kind = "ValueError"
            /\ (IsInt(n) /\ n.v >= 0) =>
                   /\ result.kind = "return"
                   /\ result.val = PyInt(Fact[n.v])
                   /\ n.v < 2 => result.val = PyInt(1)
                   /\ n.v >= 2 =>
                          result.val = PyInt(n.v * factorial(PyInt(n.v - 1)).val.v)

C1_Witness ==
    /\ call.op = "factorial"
    /\ call.args = <<PyInt(5)>>
    /\ result = Return(PyInt(120))

\* C2: for integers 0 <= r <= n, combinations(n, r) is the binomial
\* coefficient: the floor division leaves no remainder, so
\* combinations(n, r) * r! * (n - r)! = n!.
C2_CombinationsExact ==
    (/\ call.op = "combinations"
     /\ IsInt(call.args[1]) /\ IsInt(call.args[2])
     /\ 0 <= call.args[2].v /\ call.args[2].v <= call.args[1].v) =>
        LET n == call.args[1]
            r == call.args[2]
            fn == factorial(n).val.v
            fr == factorial(r).val.v
            fnr == factorial(PyInt(n.v - r.v)).val.v
        IN  /\ result.kind = "return"
            /\ IsInt(result.val)
            /\ fn % (fr * fnr) = 0
            /\ result.val.v * fr * fnr = fn
            /\ result.val.v = Choose(n.v, r.v)

C2_Witness ==
    /\ call.op = "combinations"
    /\ call.args = <<PyInt(5), PyInt(2)>>
    /\ result = Return(PyInt(10))

\* C3: for integers 0 <= r <= n, combinations(n, r) and
\* combinations(n, n - r) both return, and return the same value.
C3_CombinationsSymmetric ==
    (/\ call.op = "combinations"
     /\ IsInt(call.args[1]) /\ IsInt(call.args[2])
     /\ 0 <= call.args[2].v /\ call.args[2].v <= call.args[1].v) =>
        LET n == call.args[1]
            r == call.args[2]
            mirror == combinations(n, PyInt(n.v - r.v))
        IN  /\ result.kind = "return"
            /\ mirror.kind = "return"
            /\ result.val = mirror.val

C3_Witness ==
    /\ call.op = "combinations"
    /\ call.args = <<PyInt(4), PyInt(1)>>
    /\ result = Return(PyInt(4))
    /\ combinations(PyInt(4), PyInt(3)) = Return(PyInt(4))

\* C4: validate_less_equal(x, y) checks x, then y, then the ordering, and
\* the first failing check decides: TypeError if x is not an integer (the
\* float 4.0 included), else ValueError if x < 0, else TypeError if y is not
\* an integer, else ValueError if y < 0, else ValueError if x > y, else it
\* returns None.
C4_ValidateLessEqualOrder ==
    call.op = "validate_less_equal" =>
        LET x == call.args[1]
            y == call.args[2]
        IN  result =
                IF ~IsInt(x) THEN Raise("TypeError")
                ELSE IF x.v < 0 THEN Raise("ValueError")
                ELSE IF ~IsInt(y) THEN Raise("TypeError")
                ELSE IF y.v < 0 THEN Raise("ValueError")
                ELSE IF x.v > y.v THEN Raise("ValueError")
                ELSE Return(PyNone)

\* x negative and y a non-integer: the domain error of x wins.
C4_Witness ==
    /\ call.op = "validate_less_equal"
    /\ call.args = <<PyInt(-1), PyFloat(Rat(3, 2))>>
    /\ result.kind = "ValueError"

\* C5: validation of n and p is re-run on every access.  Whenever the
\* stored number of trials is not a non-negative integer or the stored
\* success probability is outside [0, 1], each query raises TypeError or
\* ValueError, whatever n and the arguments are; and a construction with
\* such an n or p raises and binds no object.
C5_ValidationOnEveryAccess ==
    /\ (/\ binomial.constructed
        /\ call.op \in Queries
        /\ ~(ValidN(binomial) /\ ValidP(binomial))) =>
           result.kind \in Errors
    /\ (/\ call.op = "Binomial"
        /\ ~(ValidN(NewBinomial(call.args[1], call.args[2]))
             /\ ValidP(NewBinomial(call.args[1], call.args[2])))) =>
           /\ result.kind \in Errors
           /\ ~binomial.constructed

\* An object with no trials whose success probability was reassigned to
\* 1.25: cumulative(0) raises.
C5_Witness ==
    /\ binomial.constructed
    /\ binomial._num_trails = PyInt(0)
    /\ binomial._prob_success = PyFloat(Rat(5, 4))
    /\ call.op = "cumulative"
    /\ call.args = <<PyInt(0)>>
    /\ result.kind = "ValueError"

\* C6: for a distribution built from a valid (n, p), the distribution
\* property holds exactly the keys 0, 1, ..., n in increasing order,
\* distribution[k] = probability_k(k) = C(n, k) * p^k * (1 - p)^(n - k),
\* and its values sum to 1.
C6_DistributionIsPmf ==
    (/\ binomial.constructed
     /\ ValidN(binomial) /\ ValidP(binomial)
     /\ call.op = "distribution") =>
        LET n == binomial._num_trails.v
            p == Num(binomial._prob_success)
        IN  /\ result.kind = "return"
            /\ result.val.t = "dict"
            /\ Len(result.val.v) = n + 1
            /\ \A i \in 1..Len(result.val.v) :
                   LET item == result.val.v[i]
                   IN  /\ item[1] = i - 1
                       /\ item[2] = probability_k(binomial, PyInt(i - 1)).val
                       /\ Num(item[2]) = Pmf(n, i - 1, p, RSub(RInt(1), p))
            /\ SumValues(result.val.v) = RInt(1)

C6_Witness ==
    /\ binomial.constructed
    /\ binomial._num_trails = PyInt(3)
    /\ binomial._prob_success = PyFloat(Rat(1, 4))
    /\ call.op = "distribution"
    /\ result =
           Return(PyDict(<<<<0, PyFloat(Rat(27, 64))>>, <<1, PyFloat(Rat(27, 64))>>,
                           <<2, PyFloat(Rat(9, 64))>>, <<3, PyFloat(Rat(1, 64))>>>>))

\* C7: for a valid distribution and an integer 0 <= k <= n, cumulative(k)
\* is probability_k(0) + ... + probability_k(k): k + 1 terms, the upper
\* bound included.
C7_CumulativeIsSum ==
    (/\ binomial.constructed
     /\ ValidN(binomial) /\ ValidP(binomial)
     /\ call.op = "cumulative"
     /\ IsInt(call.args[1])
     /\ 0 <= call.args[1].v /\ call.args[1].v <= binomial._num_trails.v) =>
        /\ result.kind = "return"
        /\ Num(result.val) = SumProbabilityK(binomial, 0, call.args[1].v)

C7_Witness ==
    /\ binomial.constructed
    /\ binomial._num_trails = PyInt(3)
    /\ binomial._prob_success = PyFloat(Rat(1, 4))
    /\ call.op = "cumulative"
    /\ call.args = <<PyInt(2)>>
    /\ result = Return(PyFloat(Rat(63, 64)))

\* C8: for a valid distribution and integers k1, k2: when
\* 0 <= k1 <= k2 <= n, cumulative_range(k1, k2) is
\* probability_k(k1) + ... + probability_k(k2), so that
\* cumulative_range(0, k) = cumulative(k) and
\* cumulative_range(k, k) = probability_k(k); when k1 < 0, k2 < 0, k1 > n,
\* k2 > n or k1 > k2 it raises ValueError.
C8_CumulativeRange ==
    (/\ binomial.constructed
     /\ ValidN(binomial) /\ ValidP(binomial)
     /\ call.op = "cumulative_range"
     /\ IsInt(call.args[1]) /\ IsInt(call.args[2])) =>
        LET n == binomial._num_trails.v
            k1 == call.args[1].v
            k2 == call.args[2].v
        IN  IF 0 <= k1 /\ k1 <= k2 /\ k2 <= n
            THEN /\ result.kind = "return"
                 /\ Num(result.val) = SumProbabilityK(binomial, k1, k2)
                 /\ k1 = 0 => result = cumulative(binomial, PyInt(k2))
                 /\ k1 = k2 => result = probability_k(binomial, PyInt(k1))
            ELSE result.kind = "ValueError"

C8_Witness ==
    /\ binomial.constructed
    /\ binomial._num_trails = PyInt(3)
    /\ binomial._prob_success = PyFloat(Rat(1, 4))
    /\ call.op = "cumulative_range"
    /\ call.args = <<PyInt(1), PyInt(2)>>
    /\ result = Return(PyFloat(Rat(36, 64)))

\* A valid distribution with n * p * q = 0.
Degenerate(b) ==
    /\ ValidN(b) /\ ValidP(b)
    /\ Num(PyMul(PyMul(b._num_trails, b._prob_success), b._prob_failure)).num = 0

\* C9, as stated: for a degenerate but valid distribution (n * p * q = 0:
\* n = 0, p = 0 or p = 1) skewness raises nothing and returns a value.
C9_SkewnessReturnsNonFinite ==
    (binomial.constructed /\ call.op = "skewness" /\ Degenerate(binomial)) =>
        result.kind = "return"

\* C9, amended: for a degenerate but valid distribution (n * p * q = 0:
\* n = 0, p = 0 or p = 1) skewness raises ZeroDivisionError and returns no
\* value.
C9_SkewnessRaisesZeroDivision ==
    (binomial.constructed /\ call.op = "skewness") =>
        /\ Degenerate(binomial) => result.kind = "ZeroDivisionError"
        /\ (/\ ValidN(binomial) /\ ValidP(binomial)
            /\ \/ binomial._num_trails.v = 0
               \/ Num(binomial._prob_success) = RInt(0)
               \/ Num(binomial._prob_success) = RInt(1)) =>
               result.kind = "ZeroDivisionError"

C9_Witness ==
    /\ binomial.constructed
    /\ binomial._num_trails = PyInt(2)
    /\ binomial._prob_success = PyFloat(RInt(1))
    /\ call.op = "skewness"
    /\ result.kind = "ZeroDivisionError"

\* C10: in every state after construction, a reassignment of the stored n
\* or p to other valid values included, the failure probability used is
\* 1 - p for the current p: variance = n * p * (1 - p) and
\* probability_k(k) = C(n, k) * p^k * (1 - p)^(n - k).
C10_FailureProbabilityIsCurrent ==
    (binomial.constructed /\ ValidN(binomial) /\ ValidP(binomial)) =>
        LET n == binomial._num_trails.v
            p == Num(binomial._prob_success)
            q == RSub(RInt(1), p)
        IN  /\ call.op = "variance" =>
                   /\ result.kind = "return"
                   /\ Num(result.val) = RMul(RMul(RInt(n), p), q)
            /\ (/\ call.op = "probability_k"
                /\ IsInt(call.args[1])
                /\ 0 <= call.args[1].v /\ call.args[1].v <= n) =>
                   /\ result.kind = "return"
                   /\ Num(result.val) = Pmf(n, call.args[1].v, p, q)

=============================================================================
